---- MODULE Spec2Model ----
(***************************************************************************)
(* A model of api/views.py: the module-level Poppler discovery, the        *)
(* JpgToPdfView.post and PdfToJpgView.post handlers, and the process-wide  *)
(* POPPLER_PATH environment variable they share.                           *)
(***************************************************************************)
EXTENDS Integers, Sequences, FiniteSets, TLC

VARIABLES
    env,            \* os.environ.get('POPPLER_PATH'): NONE, "" or a path
    fs,             \* the directories that exist on the filesystem
    stat_errors,    \* the paths whose stat() fails with an OSError that
                    \* Path.exists() does not swallow (name too long, access denied)
    started,        \* the import of the module: "no", "imported" or "failed"
    install_script, \* what install_script.exists() gives: "True", "False", "OSError"
    installer,      \* how the installer subprocess behaves when run
    installerRuns,  \* number of subprocess.run calls made by the import
    pdf,            \* per request thread: the locals of its PdfToJpgView.post call
    jpg             \* the last JpgToPdfView.post call: input, calls, response

vars == <<env, fs, stat_errors, started, install_script, installer,
          installerRuns, pdf, jpg>>

----------------------------------------------------------------------------
(* Bounds of the model *)

MaxPages == 3
MaxImages == 2
NumWorkers == 2

----------------------------------------------------------------------------
(* Values *)

\* os.environ.get returns None for an unset variable
NONE == "<None>"

\* `not x` for x a str or None
Falsy(x) == x = NONE \/ x = ""

\* possible_paths, relative to base_dir, in priority order
possible_paths ==
    << "poppler/poppler-23.11.0/Library/bin",
       "poppler/Library/bin",
       "poppler/bin",
       "poppler-23.11.0/Library/bin" >>

\* the two candidates PdfToJpgView.post probes
request_paths_swapped == << possible_paths[2], possible_paths[1] >>
request_paths == << possible_paths[1], possible_paths[2] >>

\* a directory that is none of the candidates (a preset POPPLER_PATH, or the
\* directory an installer reports)
OtherPath == "/opt/poppler/bin"

Paths == { possible_paths[i] : i \in DOMAIN possible_paths } \cup { OtherPath }

EnvValues == { NONE, "" } \cup Paths

\* Path(p).exists(): True, False, or the OSError of a stat() that fails with
\* anything but ENOENT, ENOTDIR, EBADF or ELOOP
Exists(p, files, errors) ==
    IF p \in errors THEN "OSError"
    ELSE IF p \in files THEN "True"
    ELSE "False"

\* the states of the filesystem: a path whose stat() fails is not known to exist
FsStates(paths) ==
    { st \in [files : SUBSET paths, errors : { {} } \cup { {p} : p \in paths }] :
        st.files \cap st.errors = {} }

----------------------------------------------------------------------------
(* Module-level Poppler discovery *)

\* the scan of lines 27-32 ended by an OSError of path.exists()
RAISED == "<OSError>"

\* for path in possible_paths: if path.exists(): poppler_path = str(path); break
RECURSIVE FirstExisting(_, _, _)
FirstExisting(paths, files, errors) ==
    IF paths = <<>> THEN NONE
    ELSE IF Exists(paths[1], files, errors) = "OSError" THEN RAISED
    ELSE IF Exists(paths[1], files, errors) = "True" THEN paths[1]
    ELSE FirstExisting(Tail(paths), files, errors)

\* One line of the installer's stdout: whether it holds the text
\* "Poppler installed at: " and what follows it up to the end of the line.
Line(marker, rest) == [marker |-> marker, rest |-> rest]

\* "Poppler installed at:" in result.stdout
HasMarker(stdout) == \E i \in DOMAIN stdout : stdout[i].marker

\* re.search(r"Poppler installed at: (.*)", result.stdout).group(1):
\* the leftmost match, up to the end of its line
RECURSIVE ExtractPath(_)
ExtractPath(stdout) ==
    IF stdout = <<>> THEN NONE
    ELSE IF stdout[1].marker THEN stdout[1].rest
    ELSE ExtractPath(Tail(stdout))

\* subprocess.run(...): it raises, or returns a returncode and stdout; the
\* script may create directories before it ends
InstallerRun(raises, returncode, stdout, creates) ==
    [raises |-> raises, returncode |-> returncode, stdout |-> stdout,
     creates |-> creates]

Installers ==
    { InstallerRun(TRUE, 0, <<>>, {}),
      InstallerRun(FALSE, 1, <<Line(TRUE, OtherPath)>>, {}),
      InstallerRun(FALSE, 1, <<Line(FALSE, "error")>>, {}),
      InstallerRun(FALSE, 0, <<Line(FALSE, "done")>>, {OtherPath}),
      InstallerRun(FALSE, 0, <<Line(FALSE, "Downloading"), Line(TRUE, OtherPath)>>,
                   {OtherPath}),
      InstallerRun(FALSE, 0, <<Line(TRUE, possible_paths[3]), Line(TRUE, OtherPath)>>,
                   {possible_paths[3]}),
      InstallerRun(FALSE, 0, <<Line(TRUE, "")>>, {}) }

\* result.returncode == 0 and "Poppler installed at:" in result.stdout
InstallAccepted(result) ==
    ~result.raises /\ result.returncode = 0 /\ HasMarker(result.stdout)

\* lines 34-66: the value of POPPLER_PATH after the import, given the result
\* of a scan that ended; an OSError of install_script.exists() is caught at
\* line 64
EnvAfterScan(found, old, script, result) ==
    IF found # NONE THEN found
    ELSE IF script = "True" /\ InstallAccepted(result) THEN ExtractPath(result.stdout)
    ELSE old

\* lines 15-66, run once when the module is imported.  The scan of lines
\* 27-32 is outside the try of line 39: an OSError of path.exists() there ends
\* the import with POPPLER_PATH as it was.
ModuleInit ==
    /\ started = "no"
    /\ IF ~Falsy(env)
       THEN /\ started' = "imported"
            /\ UNCHANGED <<env, fs, installerRuns>>
       ELSE LET found == FirstExisting(possible_paths, fs, stat_errors)
                invoked == found = NONE /\ install_script = "True"
            IN IF found = RAISED
               THEN /\ started' = "failed"
                    /\ UNCHANGED <<env, fs, installerRuns>>
               ELSE /\ started' = "imported"
                    /\ env' = EnvAfterScan(found, env, install_script, installer)
                    /\ installerRuns' = installerRuns + (IF invoked THEN 1 ELSE 0)
                    /\ fs' = IF invoked /\ ~installer.raises
                             THEN fs \cup (installer.creates \ stat_errors)
                             ELSE fs
    /\ UNCHANGED <<stat_errors, install_script, installer, pdf, jpg>>

----------------------------------------------------------------------------
(* Requests and what the libraries do with them *)

Workers == 1 .. NumWorkers

\* the exception classes the handlers tell apart
ExcKinds == { "KeyError", "OSError" }

\* An uploaded PDF: its name and the number of pages it holds
Upload(name, pages) == [name |-> name, pages |-> pages]

NoUpload == Upload("", 0)

Uploads(name) == { Upload(name, n) : n \in 0 .. MaxPages }

\* What the libraries may do in a run: the exceptions UploadedFile.read,
\* convert_from_bytes and Image.save may raise ("" : the call returns)
Library(reads, rasters, saves) ==
    [reads |-> reads, rasters |-> rasters, saves |-> saves]

AnyLibrary == Library({""} \cup ExcKinds, {""} \cup ExcKinds, {""} \cup ExcKinds)

\* the library while requests overlap: reads and encodings succeed,
\* rasterization returns or raises
PlainLibrary == Library({""}, {"", "OSError"}, {""})

\* str.lower(), on the letters
UpperLetters == << "A", "B", "C", "D", "E", "F", "G", "H", "I", "J", "K", "L", "M",
                   "N", "O", "P", "Q", "R", "S", "T", "U", "V", "W", "X", "Y", "Z" >>
LowerLetters == << "a", "b", "c", "d", "e", "f", "g", "h", "i", "j", "k", "l", "m",
                   "n", "o", "p", "q", "r", "s", "t", "u", "v", "w", "x", "y", "z" >>

LowerChar(c) ==
    IF \E i \in DOMAIN UpperLetters : UpperLetters[i] = c
    THEN LowerLetters[CHOOSE i \in DOMAIN UpperLetters : UpperLetters[i] = c]
    ELSE c

\* the characters of a string, joined
RECURSIVE Join(_)
Join(chars) == IF chars = <<>> THEN "" ELSE chars[1] \o Join(Tail(chars))

NotLowered(chars) == Join(chars)
Lower(chars) == Join([i \in DOMAIN chars |-> LowerChar(chars[i])])

\* the 'format' form field: absent, or its characters
NoField == << "<absent>" >>

FormatFields ==
    { NoField,
      << "p", "n", "g" >>, << "P", "N", "G" >>, << "P", "n", "g" >>,
      << "J", "P", "G" >>, << "j", "p", "e", "g" >>, << "J", "p", "E", "G" >>,
      << "G", "i", "f" >> }

\* request.POST.get('format', 'jpg').lower()
FormatOf(field) == Lower(IF field = NoField THEN << "j", "p", "g" >> ELSE field)

----------------------------------------------------------------------------
(* Responses *)

\* HttpResponse(...): status, Content-Type, the filename of Content-Disposition
\* and the body: a text, one image, or the entries of a zip archive
HttpResponse(status, content_type, filename, kind, text, entries) ==
    [status |-> status, content_type |-> content_type, filename |-> filename,
     kind |-> kind, text |-> text, entries |-> entries]

NoResponse == HttpResponse(0, "", "", "", "", <<>>)

DefaultContentType == "text/html; charset=utf-8"

TextResponse(status, text) ==
    HttpResponse(status, DefaultContentType, "", "text", text, <<>>)

\* lines 217-222: the handlers of the outer try of PdfToJpgView.post
OuterExcept(exc) ==
    IF exc = "KeyError"
    THEN TextResponse(400, "No PDF file uploaded")
    ELSE TextResponse(500, "Conversion failed: " \o exc)

\* lines 163-168
AllAttemptsFailed ==
    TextResponse(500, "PDF conversion failed. The PDF might be corrupted, password-protected, or Poppler is not properly installed.")

\* line 171
NoImagesExtracted ==
    TextResponse(500, "Failed to extract images from PDF (no images extracted)")

----------------------------------------------------------------------------
(* Rasterization and packaging *)

\* the i-th page image of a document, as convert_from_bytes returns it
Page(name, i) == [doc |-> name, page |-> i]

PagesOf(upload) == [i \in 1 .. upload.pages |-> Page(upload.name, i)]

\* lines 133-141: the options of the first convert_from_bytes call
\* (poppler_path NONE: the option is not passed)
Attempt1Options(format, poppler_path) ==
    [fmt |-> format, use_pdftocairo |-> TRUE, timeout |-> 60,
     poppler_path |-> IF Falsy(poppler_path) THEN NONE ELSE poppler_path]

\* lines 152-158: the options of the second call (timeout 0: not passed)
Attempt2OptionsNoPath(format, poppler_path) ==
    [fmt |-> format, use_pdftocairo |-> FALSE, timeout |-> 0,
     poppler_path |-> NONE]
Attempt2Options(format, poppler_path) ==
    [fmt |-> format, use_pdftocairo |-> FALSE, timeout |-> 0,
     poppler_path |-> IF Falsy(poppler_path) THEN NONE ELSE poppler_path]

\* one entry of the log of convert_from_bytes calls
Call(options, exc) == [options |-> options, exc |-> exc]

\* lines 179-183, 196-199: image.save(buffer, format='PNG', compress_level=1)
\* or image.save(buffer, format='JPEG', quality=95)
Save(image, format) ==
    IF format = "png"
    THEN [codec |-> "PNG", option |-> "compress_level", value |-> 1,
          image |-> image]
    ELSE [codec |-> "JPEG", option |-> "quality", value |-> 95,
          image |-> image]

\* line 201: f'page_{i+1}.{format}', i the index enumerate() gives from 0
ZipEntryNameFromZero(i, format) == "page_" \o ToString(i) \o "." \o format
ZipEntryName(i, format) == "page_" \o ToString(i + 1) \o "." \o format

\* lines 191-202: the archive's entries, in the order they are written
ZipEntries(images, format) ==
    [j \in 1 .. Len(images) |->
        [name |-> ZipEntryName(j - 1, format), data |-> Save(images[j], format)]]

\* lines 173-215 when every save returns
Packaged(images, format) ==
    IF Len(images) = 1
    THEN HttpResponse(200, "image/" \o format, "converted." \o format, "image",
                      "", << [name |-> "", data |-> Save(images[1], format)] >>)
    ELSE HttpResponse(200, "application/zip", "converted.zip", "zip",
                      "", ZipEntries(images, format))

\* lines 173-222: the response for a non-empty list of images, when saving
\* page fail_at (0: none) raises exc
PackageSkippingFailed(images, format, fail_at, exc) ==
    IF fail_at \in 1 .. Len(images)
    THEN HttpResponse(200, "application/zip", "converted.zip", "zip", "",
                      ZipEntries(SubSeq(images, 1, fail_at - 1), format))
    ELSE Packaged(images, format)
Package(images, format, fail_at, exc) ==
    IF fail_at \in 1 .. Len(images)
    THEN OuterExcept(exc)
    ELSE Packaged(images, format)

\* the ways encoding n pages can go: all succeed (<<0, "">>), or page k raises
SaveCases(n, excs) == { <<0, "">> } \cup ((1 .. n) \X (excs \ {""}))

----------------------------------------------------------------------------
(* PdfToJpgView.post, one step per statement that reads or writes state other *)
(* requests can see                                                          *)

\* The locals of one call.  seen, probes and checked are records of what the
\* call observed: the cache as read at line 109, the result of each
\* path.exists() of lines 115-119, and that of line 126.
Idle ==
    [pc |-> "idle", has_pdf |-> FALSE, field |-> NoField, upload |-> NoUpload,
     format |-> "", seen |-> NONE, poppler_path |-> NONE, idx |-> 0,
     probes |-> <<>>, wrote |-> FALSE, checked |-> FALSE,
     images |-> <<>>, calls |-> <<>>, resp |-> NoResponse]

PdfName(r) == "upload" \o ToString(r) \o ".pdf"

\* a request arrives: the 'pdf' file (or none) and the 'format' field
PdfReceive(r, has_pdf, field, upload) ==
    /\ pdf[r].pc = "idle"
    /\ pdf' = [pdf EXCEPT ![r] = [Idle EXCEPT !.pc = "read", !.has_pdf = has_pdf,
                                              !.field = field, !.upload = upload]]
    /\ UNCHANGED <<env, fs, stat_errors, started, install_script, installer, installerRuns, jpg>>

\* lines 96-102: request.FILES['pdf'], the format, pdf_file.read()
PdfRead(r, lib) ==
    /\ pdf[r].pc = "read"
    /\ \E exc \in lib.reads :
          pdf' = [pdf EXCEPT ![r] =
                    IF ~pdf[r].has_pdf
                    THEN [@ EXCEPT !.pc = "done", !.resp = OuterExcept("KeyError")]
                    ELSE IF exc # ""
                    THEN [@ EXCEPT !.pc = "done", !.format = FormatOf(pdf[r].field),
                                   !.resp = OuterExcept(exc)]
                    ELSE [@ EXCEPT !.pc = "getenv", !.format = FormatOf(pdf[r].field)]]
    /\ UNCHANGED <<env, fs, stat_errors, started, install_script, installer, installerRuns, jpg>>

\* line 113: `if not poppler_path`
NeedsProbeAlways(poppler_path) == TRUE
NeedsProbe(poppler_path) == Falsy(poppler_path)

\* lines 109-113: poppler_path = os.environ.get('POPPLER_PATH')
PdfGetEnv(r) ==
    /\ pdf[r].pc = "getenv"
    /\ pdf' = [pdf EXCEPT ![r] =
                 [@ EXCEPT !.seen = env, !.poppler_path = env,
                           !.pc = IF NeedsProbe(env) THEN "probe" ELSE "verify",
                           !.idx = IF NeedsProbe(env) THEN 1 ELSE 0]]
    /\ UNCHANGED <<env, fs, stat_errors, started, install_script, installer, installerRuns, jpg>>

\* lines 115-120: one round of the loop: path.exists(), poppler_path = str(path);
\* an OSError of path.exists() goes to the except of line 220
PdfProbe(r) ==
    /\ pdf[r].pc = "probe"
    /\ LET path == request_paths[pdf[r].idx]
           stat == Exists(path, fs, stat_errors)
           found == stat = "True"
       IN pdf' = [pdf EXCEPT ![r] =
                    IF stat = "OSError"
                    THEN [@ EXCEPT !.pc = "done", !.resp = OuterExcept("OSError")]
                    ELSE [@ EXCEPT !.probes = Append(@, found),
                                   !.poppler_path = IF found THEN path ELSE @,
                                   !.idx = IF found THEN @ ELSE @ + 1,
                                   !.pc = IF found THEN "setenv"
                                          ELSE IF pdf[r].idx < Len(request_paths)
                                          THEN "probe" ELSE "verify"]]
    /\ UNCHANGED <<env, fs, stat_errors, started, install_script, installer, installerRuns, jpg>>

\* lines 121-123: os.environ['POPPLER_PATH'] = poppler_path; break
PdfSetEnv(r) ==
    /\ pdf[r].pc = "setenv"
    /\ env' = pdf[r].poppler_path
    /\ pdf' = [pdf EXCEPT ![r] = [@ EXCEPT !.pc = "verify", !.wrote = TRUE]]
    /\ UNCHANGED <<fs, stat_errors, started, install_script, installer, installerRuns, jpg>>

\* lines 126-128: the local poppler_path after a check that returned
VerifiedPath(poppler_path, exists) ==
    IF ~Falsy(poppler_path) /\ exists = "False"
    THEN NONE ELSE poppler_path

\* lines 126-128: Path(poppler_path).exists() is called for a non-empty path;
\* its OSError goes to the except of line 220; only the local is reset,
\* os.environ is left as it is
PdfVerify(r) ==
    /\ pdf[r].pc = "verify"
    /\ LET exists == IF Falsy(pdf[r].poppler_path) THEN "False"
                     ELSE Exists(pdf[r].poppler_path, fs, stat_errors)
       IN pdf' = [pdf EXCEPT ![r] =
                    IF exists = "OSError"
                    THEN [@ EXCEPT !.pc = "done", !.resp = OuterExcept("OSError")]
                    ELSE [@ EXCEPT !.checked = (exists = "True"),
                                   !.poppler_path = VerifiedPath(@, exists),
                                   !.pc = "attempt1"]]
    /\ UNCHANGED <<env, fs, stat_errors, started, install_script, installer, installerRuns, jpg>>

\* lines 131-147: the first convert_from_bytes call
PdfAttempt1(r, lib) ==
    /\ pdf[r].pc = "attempt1"
    /\ \E exc \in lib.rasters :
          LET options == Attempt1Options(pdf[r].format, pdf[r].poppler_path)
          IN pdf' = [pdf EXCEPT ![r] =
                       [@ EXCEPT !.calls = Append(@, Call(options, exc)),
                                 !.images = IF exc = "" THEN PagesOf(pdf[r].upload)
                                            ELSE <<>>,
                                 !.pc = IF exc = "" THEN "package" ELSE "attempt2"]]
    /\ UNCHANGED <<env, fs, stat_errors, started, install_script, installer, installerRuns, jpg>>

\* lines 149-168: the second call, and the response when it raises too
PdfAttempt2(r, lib) ==
    /\ pdf[r].pc = "attempt2"
    /\ \E exc \in lib.rasters :
          LET options == Attempt2Options(pdf[r].format, pdf[r].poppler_path)
          IN pdf' = [pdf EXCEPT ![r] =
                       [@ EXCEPT !.calls = Append(@, Call(options, exc)),
                                 !.images = IF exc = "" THEN PagesOf(pdf[r].upload)
                                            ELSE <<>>,
                                 !.resp = IF exc = "" THEN @ ELSE AllAttemptsFailed,
                                 !.pc = IF exc = "" THEN "package" ELSE "done"]]
    /\ UNCHANGED <<env, fs, stat_errors, started, install_script, installer, installerRuns, jpg>>

\* lines 170-222: the empty result, the encoding and the response
PdfPackage(r, lib) ==
    /\ pdf[r].pc = "package"
    /\ \E sc \in SaveCases(Len(pdf[r].images), lib.saves) :
          pdf' = [pdf EXCEPT ![r] =
                    [@ EXCEPT !.pc = "done",
                              !.resp = IF pdf[r].images = <<>>
                                       THEN NoImagesExtracted
                                       ELSE Package(pdf[r].images, pdf[r].format,
                                                    sc[1], sc[2])]]
    /\ UNCHANGED <<env, fs, stat_errors, started, install_script, installer, installerRuns, jpg>>

\* the response is sent and the call's locals are gone
PdfReturn(r) ==
    /\ pdf[r].pc = "done"
    /\ pdf' = [pdf EXCEPT ![r] = Idle]
    /\ UNCHANGED <<env, fs, stat_errors, started, install_script, installer, installerRuns, jpg>>

\* a directory appears on or disappears from the filesystem
FsChange(paths) ==
    /\ \E p \in paths \ stat_errors :
          fs' = IF p \in fs THEN fs \ {p} ELSE fs \cup {p}
    /\ UNCHANGED <<env, stat_errors, started, install_script, installer,
                   installerRuns, pdf, jpg>>

\* a path's stat() starts to fail (access to it is denied) or works again
StatChange(paths) ==
    /\ \E st \in FsStates(paths) :
          /\ st.errors # stat_errors
          /\ st.files = fs \ st.errors
          /\ fs' = st.files
          /\ stat_errors' = st.errors
    /\ UNCHANGED <<env, started, install_script, installer, installerRuns, pdf, jpg>>

----------------------------------------------------------------------------
(* JpgToPdfView.post *)

ImageFiles == { "a.jpg", "b.png" }

\* the lists of at most n uploaded files
RECURSIVE FileLists(_)
FileLists(n) ==
    IF n = 0 THEN { <<>> }
    ELSE FileLists(n - 1)
         \cup { Append(l, f) : l \in { m \in FileLists(n - 1) : Len(m) = n - 1 },
                               f \in ImageFiles }

\* img.read(): the bytes of an uploaded file
Read(file) == [bytes_of |-> file]

\* line 77: [img.read() for img in images]
ImageDataReversed(images) ==
    [i \in DOMAIN images |-> Read(images[Len(images) + 1 - i])]
ImageData(images) == [i \in DOMAIN images |-> Read(images[i])]

\* img2pdf.convert(image_data): a document with one page per element
Pdf(image_data) == [pages |-> image_data]

JpgIdle == [pc |-> "idle", images |-> <<>>, calls |-> <<>>, read_exc |-> "",
            resp |-> [status |-> 0, content_type |-> "", filename |-> "",
                      text |-> "", document |-> Pdf(<<>>)]]

JpgResponse(status, content_type, filename, text, document) ==
    [status |-> status, content_type |-> content_type, filename |-> filename,
     text |-> text, document |-> document]

\* line 74: `if not images`
NoImagesNever(images) == FALSE
NoImages(images) == images = <<>>

\* lines 71-85, the whole handler: no state of it is visible to another request.
\* read_exc and convert_exc are what reading the uploads and img2pdf.convert
\* raise ("": nothing)
JpgPost(images, read_exc, convert_exc) ==
    /\ jpg.pc = "idle"
    /\ jpg' =
         IF NoImages(images)
         THEN [JpgIdle EXCEPT !.pc = "done", !.images = images,
                  !.resp = JpgResponse(400, DefaultContentType, "",
                                       "No images provided", Pdf(<<>>))]
         ELSE IF read_exc # ""
         THEN [JpgIdle EXCEPT !.pc = "done", !.images = images,
                  !.read_exc = read_exc,
                  !.resp = JpgResponse(500, DefaultContentType, "",
                                       "Conversion failed: " \o read_exc, Pdf(<<>>))]
         ELSE [JpgIdle EXCEPT !.pc = "done", !.images = images,
                  !.calls = << Call(ImageData(images), convert_exc) >>,
                  !.resp =
                     IF convert_exc # ""
                     THEN JpgResponse(500, DefaultContentType, "",
                                      "Conversion failed: " \o convert_exc, Pdf(<<>>))
                     ELSE JpgResponse(200, "application/pdf", "converted.pdf", "",
                                      Pdf(ImageData(images)))]
    /\ UNCHANGED <<env, fs, stat_errors, started, install_script, installer, installerRuns, pdf>>

\* the response is sent
JpgReturn ==
    /\ jpg.pc = "done"
    /\ jpg' = JpgIdle
    /\ UNCHANGED <<env, fs, stat_errors, started, install_script, installer, installerRuns, pdf>>

----------------------------------------------------------------------------
(* Specifications *)

NoInstaller == InstallerRun(TRUE, 0, <<>>, {})

AllIdle == jpg.pc = "idle" /\ \A r \in Workers : pdf[r].pc = "idle"

\* The process before the import of api/views.py, under every environment:
\* POPPLER_PATH preset or not, any directories present or failing to stat, any
\* installer.
InitStartup ==
    /\ env \in EnvValues
    /\ \E st \in FsStates(Paths) : fs = st.files /\ stat_errors = st.errors
    /\ started = "no"
    /\ install_script \in { "True", "False", "OSError" }
    /\ installer \in Installers
    /\ installerRuns = 0
    /\ pdf = [r \in Workers |-> Idle]
    /\ jpg = JpgIdle

NextStartup == ModuleInit

SpecStartup == InitStartup /\ [][NextStartup]_vars

\* the directories a request probes
ProbedPaths == { request_paths[i] : i \in DOMAIN request_paths }

\* the directories a request can look at: the two it probes and one other that
\* POPPLER_PATH may name (a preset value, a candidate of the import only, an
\* installer's path)
ServedPaths == ProbedPaths \cup { OtherPath }

\* The server some time after the import, with no request in progress:
\* POPPLER_PATH holds whatever the import left, and the filesystem is in any
\* state.
Init ==
    /\ env \in { NONE, "" } \cup ServedPaths
    /\ \E st \in FsStates(ServedPaths) : fs = st.files /\ stat_errors = st.errors
    /\ started = "imported"
    /\ install_script = "False"
    /\ installer = NoInstaller
    /\ installerRuns = 0
    /\ pdf = [r \in Workers |-> Idle]
    /\ jpg = JpgIdle

\* a request to /pdf-to-jpg/ arrives while the server is idle
PdfRequest(r) ==
    /\ AllIdle
    /\ \E has_pdf \in BOOLEAN, field \in FormatFields, upload \in Uploads(PdfName(r)) :
          PdfReceive(r, has_pdf, field, IF has_pdf THEN upload ELSE NoUpload)

\* a request to /jpg-to-pdf/ arrives while the server is idle
JpgRequest ==
    /\ AllIdle
    /\ \E images \in FileLists(MaxImages), read_exc \in AnyLibrary.reads,
          convert_exc \in {""} \cup ExcKinds :
          JpgPost(images, IF images = <<>> THEN "" ELSE read_exc,
                  IF images = <<>> \/ read_exc # "" THEN "" ELSE convert_exc)

\* Requests served one at a time, with every input and every library outcome
Next ==
    \/ \E r \in Workers : PdfRequest(r)
    \/ \E r \in Workers : PdfRead(r, AnyLibrary)
    \/ \E r \in Workers : PdfGetEnv(r)
    \/ \E r \in Workers : PdfProbe(r)
    \/ \E r \in Workers : PdfSetEnv(r)
    \/ \E r \in Workers : PdfVerify(r)
    \/ \E r \in Workers : PdfAttempt1(r, AnyLibrary)
    \/ \E r \in Workers : PdfAttempt2(r, AnyLibrary)
    \/ \E r \in Workers : PdfPackage(r, AnyLibrary)
    \/ \E r \in Workers : PdfReturn(r)
    \/ JpgRequest
    \/ JpgReturn
    \/ FsChange(ServedPaths)
    \/ StatChange(ServedPaths)

Spec == Init /\ [][Next]_vars

\* As Init, with the cache unset or holding one of the directories a request
\* probes, none of the other directories present, and every stat() answering
InitConcurrent ==
    /\ Init
    /\ env \in { NONE } \cup ProbedPaths
    /\ fs \subseteq ProbedPaths
    /\ stat_errors = {}

\* a request to /pdf-to-jpg/ with a one-page document and no format field
\* arrives, whatever the other threads are doing
PdfRequestOverlapping(r) ==
    PdfReceive(r, TRUE, NoField, Upload(PdfName(r), 1))

\* the steps of the requests in progress
PdfStep ==
    \/ \E r \in Workers : PdfRead(r, PlainLibrary)
    \/ \E r \in Workers : PdfGetEnv(r)
    \/ \E r \in Workers : PdfProbe(r)
    \/ \E r \in Workers : PdfSetEnv(r)
    \/ \E r \in Workers : PdfVerify(r)
    \/ \E r \in Workers : PdfAttempt1(r, PlainLibrary)
    \/ \E r \in Workers : PdfAttempt2(r, PlainLibrary)
    \/ \E r \in Workers : PdfPackage(r, PlainLibrary)
    \/ \E r \in Workers : PdfReturn(r)

\* Overlapping requests on a filesystem that changes under them
NextConcurrent ==
    \/ \E r \in Workers : PdfRequestOverlapping(r)
    \/ PdfStep
    \/ FsChange(ProbedPaths)

SpecConcurrent == InitConcurrent /\ [][NextConcurrent]_vars

\* Overlapping requests on a filesystem that does not change
NextStableFs ==
    \/ \E r \in Workers : PdfRequestOverlapping(r)
    \/ PdfStep

\* As InitConcurrent, except that the stat() of one probed directory may fail
InitStableFs ==
    /\ Init
    /\ env \in { NONE } \cup ProbedPaths
    /\ fs \subseteq ProbedPaths
    /\ stat_errors \subseteq ProbedPaths

SpecStableFs == InitStableFs /\ [][NextStableFs]_vars

----------------------------------------------------------------------------
(* Properties *)

Done(r) == pdf[r].pc = "done"

\* the poppler_path option of every convert_from_bytes call r has made
PathsPassed(r) == { pdf[r].calls[i].options.poppler_path : i \in DOMAIN pdf[r].calls }

\* C1: PdfToJpgView.post answers 400 exactly when the 'pdf' field is absent; an
\* exception raised after the field was read gives 500, never 400.
C1_BadRequestIffNoPdf ==
    \A r \in Workers :
        Done(r) => (pdf[r].resp.status = 400 <=> ~pdf[r].has_pdf)

\* C2: convert_from_bytes is called at most twice per request: first with
\* pdftocairo and timeout 60; a second time exactly when the first call raised,
\* without pdftocairo and with the same poppler_path (or none); never a third.
C2_AtMostTwoAttempts ==
    \A r \in Workers :
        LET calls == pdf[r].calls
        IN /\ Len(calls) <= 2
           /\ Len(calls) >= 1 =>
                /\ calls[1].options.use_pdftocairo
                /\ calls[1].options.timeout = 60
           /\ Len(calls) = 2 =>
                /\ calls[1].exc # ""
                /\ ~calls[2].options.use_pdftocairo
                /\ calls[2].options.poppler_path = calls[1].options.poppler_path
           /\ (pdf[r].pc \in {"package", "done"} /\ Len(calls) >= 1) =>
                (Len(calls) = 2 <=> calls[1].exc # "")
           /\ pdf[r].pc = "attempt2" => (Len(calls) = 1 /\ calls[1].exc # "")

\* a request whose first attempt raised and whose second, given the same
\* existing toolchain path, returned
C2_Witness ==
    \E r \in Workers :
        /\ Done(r)
        /\ Len(pdf[r].calls) = 2
        /\ pdf[r].calls[2].exc = ""
        /\ pdf[r].calls[2].options.poppler_path = request_paths[2]

\* C3: the response is 500 when the second attempt raised too and when the
\* rasterization returned no page; it is 200 only when the last attempt returned
\* at least one page, and then the body is the one whole image or the archive of
\* all the pages; every other response is an error with no result in its body.
C3_FullResultOrError ==
    \A r \in Workers :
        Done(r) =>
            LET calls == pdf[r].calls
                resp == pdf[r].resp
                n == pdf[r].upload.pages
            IN /\ resp.status \in {200, 400, 500}
               /\ (Len(calls) = 2 /\ calls[2].exc # "") => resp.status = 500
               /\ (calls # <<>> /\ calls[Len(calls)].exc = "" /\ n = 0) =>
                    resp.status = 500
               /\ resp.status = 200 =>
                    /\ calls # <<>>
                    /\ calls[Len(calls)].exc = ""
                    /\ n >= 1
                    /\ resp.kind = (IF n = 1 THEN "image" ELSE "zip")
                    /\ Len(resp.entries) = n
                    /\ \A i \in 1 .. n :
                          resp.entries[i].data.image = Page(pdf[r].upload.name, i)
               /\ resp.status # 200 => (resp.kind = "text" /\ resp.entries = <<>>)

\* a request whose pages were rasterized and whose encoding then failed
C3_Witness ==
    \E r \in Workers :
        /\ Done(r)
        /\ Len(pdf[r].images) = 3
        /\ pdf[r].resp.status = 500

\* C4: for n >= 1 rasterized pages and format f in {jpg, png}, a 200 response is,
\* for n = 1, one image with type image/f named converted.f and, for n > 1, a zip
\* named converted.zip whose entries are page_1.f ... page_n.f, entry i holding
\* the encoding of page i.
C4_Packaging ==
    \A r \in Workers :
        (Done(r) /\ pdf[r].resp.status = 200 /\ pdf[r].format \in {"jpg", "png"}) =>
            LET resp == pdf[r].resp
                f == pdf[r].format
                n == pdf[r].upload.pages
            IN /\ n >= 1
               /\ Len(resp.entries) = n
               /\ n = 1 =>
                    /\ resp.content_type = "image/" \o f
                    /\ resp.filename = "converted." \o f
                    /\ resp.kind = "image"
                    /\ resp.entries[1].data.image = Page(pdf[r].upload.name, 1)
               /\ n > 1 =>
                    /\ resp.content_type = "application/zip"
                    /\ resp.filename = "converted.zip"
                    /\ resp.kind = "zip"
                    /\ \A i \in 1 .. n :
                          /\ resp.entries[i].name = "page_" \o ToString(i) \o "." \o f
                          /\ resp.entries[i].data.image = Page(pdf[r].upload.name, i)
               /\ n = 3 /\ f = "png" =>
                    [i \in 1 .. 3 |-> resp.entries[i].name]
                        = << "page_1.png", "page_2.png", "page_3.png" >>

\* the 3-page document converted to png
C4_Witness ==
    \E r \in Workers :
        /\ Done(r)
        /\ pdf[r].resp.status = 200
        /\ pdf[r].format = "png"
        /\ Len(pdf[r].resp.entries) = 3

\* what r holds once lines 109-128 are behind it: the cached value when that is
\* non-empty; otherwise the first of the two candidates found to exist, which is
\* also in the cache; dropped when the check of line 126 finds it missing, so
\* that a path that is passed existed when it was checked
ResolvedInOrder(r) ==
    (pdf[r].pc = "attempt1" \/ pdf[r].calls # <<>>) =>
        LET seen == pdf[r].seen
            probes == pdf[r].probes
            k == Len(probes)
            path == pdf[r].poppler_path
        IN /\ ~Falsy(seen) =>
                /\ probes = <<>>
                /\ ~pdf[r].wrote
                /\ path = (IF pdf[r].checked THEN seen ELSE NONE)
           /\ Falsy(seen) =>
                /\ k \in 1 .. 2
                /\ \A j \in 1 .. (k - 1) : ~probes[j]
                /\ pdf[r].wrote <=> probes[k]
                /\ probes[k] =>
                     /\ env = request_paths[k]
                     /\ path = (IF pdf[r].checked THEN request_paths[k] ELSE NONE)
                /\ ~probes[k] => (k = 2 /\ Falsy(path))
           /\ \A p \in PathsPassed(r) :
                /\ p = (IF Falsy(path) THEN NONE ELSE path)
                /\ p # NONE => pdf[r].checked

\* r takes a step of lines 113-128
Resolves(r) == pdf[r].pc \in {"probe", "setenv", "verify"} /\ pdf'[r] # pdf[r]

\* C5: the path passed to rasterization is the cached value when that is
\* non-empty; otherwise the first existing of the two candidates, which is also
\* written to the cache; a path that does not exist at the check is dropped and
\* the request goes on to rasterization without one; a path that is passed
\* existed when it was checked.
C5_ResolutionOrder ==
    [][ \A r \in Workers :
          /\ ResolvedInOrder(r)'
          /\ Resolves(r) =>
                pdf'[r].pc \in {"probe", "setenv", "verify", "attempt1"}
          /\ ( /\ Resolves(r)
               /\ pdf[r].pc = "verify"
               /\ ~Falsy(pdf[r].poppler_path)
               /\ pdf[r].poppler_path \notin fs ) =>
                (pdf'[r].pc = "attempt1" /\ pdf'[r].poppler_path = NONE) ]_vars

\* r takes the step of lines 126-128 and finds that the cached path, which it
\* holds, does not exist
FindsCacheMissing(r) ==
    /\ pdf[r].pc = "verify"
    /\ pdf'[r].pc = "attempt1"
    /\ ~Falsy(pdf[r].poppler_path)
    /\ pdf[r].poppler_path = env
    /\ Exists(pdf[r].poppler_path, fs, stat_errors) = "False"

\* C6 as stated: once set, POPPLER_PATH changes only by being cleared, and it is
\* cleared when a request finds that it points to a path that does not exist.
C6_ClearedWhenMissing ==
    [][ /\ \A r \in Workers : FindsCacheMissing(r) => Falsy(env')
        /\ (~Falsy(env) /\ env' # env) =>
              (Falsy(env') /\ \E r \in Workers : FindsCacheMissing(r)) ]_vars

\* C6, amended: once non-empty, POPPLER_PATH is never cleared, not even by a
\* request that finds it pointing to a missing path (the request drops only its
\* local copy); after the import it is written only by a request that read it as
\* empty, with one of the two candidates that request found to exist.
C6_NeverCleared ==
    [][ /\ ~Falsy(env) => ~Falsy(env')
        /\ \A r \in Workers : FindsCacheMissing(r) => env' = env
        /\ env' # env =>
              \E r \in Workers :
                  /\ pdf[r].pc = "setenv"
                  /\ pdf'[r].pc = "verify"
                  /\ Falsy(pdf[r].seen)
                  /\ pdf[r].probes[Len(pdf[r].probes)]
                  /\ env' = request_paths[Len(pdf[r].probes)] ]_vars

\* a request has found the cached path missing and goes on without it, and the
\* cache still holds that path
C6_Witness ==
    \E r \in Workers :
        /\ pdf[r].pc = "attempt1"
        /\ ~Falsy(pdf[r].seen)
        /\ ~pdf[r].checked
        /\ pdf[r].poppler_path = NONE
        /\ env = pdf[r].seen

\* the filesystem's answer to the request-time probe: a directory, none, or
\* the error of a stat() that fails before a directory is found
ProbeAnswer ==
    IF "poppler/poppler-23.11.0/Library/bin" \in stat_errors THEN RAISED
    ELSE IF "poppler/poppler-23.11.0/Library/bin" \in fs
    THEN "poppler/poppler-23.11.0/Library/bin"
    ELSE IF "poppler/Library/bin" \in stat_errors THEN RAISED
    ELSE IF "poppler/Library/bin" \in fs THEN "poppler/Library/bin"
    ELSE NONE

\* r has read the cache (line 109) and its response is not sent yet
Resolving(r) ==
    \/ pdf[r].pc \in {"probe", "setenv", "verify", "attempt1", "attempt2", "package"}
    \/ pdf[r].pc = "done" /\ pdf[r].calls # <<>>

\* C7: on an unchanging filesystem, requests that overlap while the cache is
\* empty all resolve the same path: each passes the filesystem's answer to
\* rasterization, the cache ends holding that answer (or stays empty when there
\* is none), or each fails on the same stat() error with the cache left empty;
\* and a response holds pages of its own request's upload only.
C7_BenignRace ==
    /\ (\E r \in Workers : Resolving(r) /\ Falsy(pdf[r].seen)) =>
          /\ Falsy(env) \/ env = ProbeAnswer
          /\ \A r \in Workers :
                Resolving(r) =>
                   /\ pdf[r].seen \in {NONE, "", ProbeAnswer}
                   /\ pdf[r].pc = "setenv" => pdf[r].poppler_path = ProbeAnswer
                   /\ (pdf[r].pc = "attempt1" \/ pdf[r].calls # <<>>) =>
                         /\ ProbeAnswer # RAISED
                         /\ Falsy(pdf[r].poppler_path) <=> ProbeAnswer = NONE
                         /\ ~Falsy(pdf[r].poppler_path) =>
                               pdf[r].poppler_path = ProbeAnswer
                         /\ PathsPassed(r) \subseteq { ProbeAnswer }
                         /\ ProbeAnswer # NONE => env = ProbeAnswer
                         /\ ProbeAnswer = NONE => Falsy(env)
    /\ \A r \in Workers :
          (Done(r) /\ Falsy(pdf[r].seen) /\ ProbeAnswer = RAISED) =>
              /\ pdf[r].resp = OuterExcept("OSError")
              /\ pdf[r].calls = <<>>
              /\ Falsy(env)
    /\ \A r \in Workers :
          \A i \in DOMAIN pdf[r].resp.entries :
              pdf[r].resp.entries[i].data.image.doc = PdfName(r)

\* two requests that both read the cache as empty, both wrote it, and are both
\* past the check with the same path
C7_Witness ==
    \E r1 \in Workers, r2 \in Workers :
        /\ r1 # r2
        /\ Falsy(pdf[r1].seen) /\ Falsy(pdf[r2].seen)
        /\ pdf[r1].wrote /\ pdf[r2].wrote
        /\ pdf[r1].pc = "attempt1" /\ pdf[r2].pc = "attempt1"
        /\ pdf[r1].poppler_path = pdf[r2].poppler_path
        /\ pdf[r1].poppler_path = env

\* the candidates that exist, by their place in possible_paths
ExistingCandidates == { i \in DOMAIN possible_paths : possible_paths[i] \in fs }

\* C8: the import, run with POPPLER_PATH unset, records the existing candidate of
\* highest priority; it runs the installer exactly when no candidate exists and
\* the script is there; it records the installer's path only when the installer
\* exits with 0 and prints the marker, and otherwise leaves POPPLER_PATH as it
\* was; in every case the import completes.
C8_Locator ==
    [][ started = "no" =>
          /\ started' = "imported"
          /\ ~Falsy(env) => (env' = env /\ installerRuns' = installerRuns)
          /\ Falsy(env) =>
               /\ ExistingCandidates # {} =>
                    /\ \E i \in ExistingCandidates :
                          /\ env' = possible_paths[i]
                          /\ \A j \in ExistingCandidates : i <= j
                    /\ installerRuns' = 0
               /\ installerRuns' = installerRuns + 1
                    <=> (ExistingCandidates = {} /\ install_script = "True")
               /\ installerRuns' \in {0, 1}
               /\ ExistingCandidates = {} =>
                    IF /\ install_script = "True"
                       /\ ~installer.raises
                       /\ installer.returncode = 0
                       /\ \E i \in DOMAIN installer.stdout : installer.stdout[i].marker
                    THEN \E i \in DOMAIN installer.stdout :
                            /\ installer.stdout[i].marker
                            /\ \A j \in 1 .. (i - 1) : ~installer.stdout[j].marker
                            /\ env' = installer.stdout[i].rest
                    ELSE env' = env ]_vars

\* C9: JpgToPdfView.post with no file answers 400 and never calls
\* img2pdf.convert; with one or more files, once their bytes are read, it calls
\* convert exactly once with the list of the bytes in upload order, one element
\* per file, and answers 200 with the document, or 500 with the error's message
\* when convert raises.
C9_JpgToPdf ==
    jpg.pc = "done" =>
        LET images == jpg.images
            calls == jpg.calls
            resp == jpg.resp
        IN /\ Len(calls) <= 1
           /\ images = <<>> => (resp.status = 400 /\ calls = <<>>)
           /\ resp.status = 400 => images = <<>>
           /\ (images # <<>> /\ jpg.read_exc # "") =>
                 (calls = <<>> /\ resp.status = 500)
           /\ (images # <<>> /\ jpg.read_exc = "") =>
                 /\ Len(calls) = 1
                 /\ Len(calls[1].options) = Len(images)
                 /\ \A i \in 1 .. Len(images) :
                       calls[1].options[i] = [bytes_of |-> images[i]]
                 /\ calls[1].exc = "" =>
                       /\ resp.status = 200
                       /\ resp.content_type = "application/pdf"
                       /\ resp.document = [pages |-> calls[1].options]
                 /\ calls[1].exc # "" =>
                       /\ resp.status = 500
                       /\ resp.text = "Conversion failed: " \o calls[1].exc

\* two different files uploaded and assembled
C9_Witness ==
    /\ jpg.pc = "done"
    /\ jpg.images = << "b.png", "a.jpg" >>
    /\ jpg.resp.status = 200

\* what str.lower() gives for each field value the clients send
ExpectedFormat ==
    [field \in FormatFields |->
        CASE field = NoField -> "jpg"
          [] field \in { << "p", "n", "g" >>, << "P", "N", "G" >>, << "P", "n", "g" >> }
               -> "png"
          [] field = << "J", "P", "G" >> -> "jpg"
          [] field \in { << "j", "p", "e", "g" >>, << "J", "p", "E", "G" >> } -> "jpeg"
          [] field = << "G", "i", "f" >> -> "gif"]

\* the registered name of the type a codec writes
TypeName(codec) == IF codec = "PNG" THEN "png" ELSE "jpeg"

\* the names a response carries: its type, its filename, its entries' names
Labels(resp) ==
    << resp.content_type, resp.filename,
       [i \in DOMAIN resp.entries |-> resp.entries[i].name] >>

\* the parts of C10 that do not depend on which labels are right
FormatHandling(r) ==
    LET resp == pdf[r].resp
        f == pdf[r].format
        n == Len(resp.entries)
    IN /\ f = ExpectedFormat[pdf[r].field]
       /\ \A i \in 1 .. n :
             /\ resp.entries[i].data.codec = "PNG" <=> f = "png"
             /\ resp.entries[i].data.codec # "PNG" =>
                   resp.entries[i].data.codec = "JPEG"
       /\ n = 1 => (resp.content_type = "image/" \o f
                    /\ resp.filename = "converted." \o f)
       /\ n > 1 => \A i \in 1 .. n :
                      resp.entries[i].name = "page_" \o ToString(i) \o "." \o f
       /\ \A other \in FormatFields :
             ExpectedFormat[other] = ExpectedFormat[pdf[r].field] =>
                Labels(Packaged(pdf[r].images, FormatOf(other))) = Labels(resp)

\* C10 as stated: the format is lower-cased and not validated; PNG is written
\* exactly for 'png' and JPEG otherwise; the labels use the lower-cased string;
\* values differing only in case give the same labels; and the label names the
\* encoding written only for 'png'.
C10_LabelRightOnlyForPng ==
    \A r \in Workers :
        (Done(r) /\ pdf[r].resp.status = 200) =>
            /\ FormatHandling(r)
            /\ \A i \in DOMAIN pdf[r].resp.entries :
                  pdf[r].format = TypeName(pdf[r].resp.entries[i].data.codec)
                     <=> pdf[r].format = "png"

\* C10, amended: as stated, except that the label names the encoding written
\* for 'png' and for 'jpeg' (JPEG data labelled image/jpeg), and for no other
\* value.
C10_FormatLabels ==
    \A r \in Workers :
        (Done(r) /\ pdf[r].resp.status = 200) =>
            /\ FormatHandling(r)
            /\ \A i \in DOMAIN pdf[r].resp.entries :
                  pdf[r].format = TypeName(pdf[r].resp.entries[i].data.codec)
                     <=> pdf[r].format \in {"png", "jpeg"}

\* a two-page document converted with format 'PNG'
C10_Witness ==
    \E r \in Workers :
        /\ Done(r)
        /\ pdf[r].resp.status = 200
        /\ pdf[r].field = << "P", "N", "G" >>
        /\ Len(pdf[r].resp.entries) = 2

====
